---- MODULE Spec2Model ----
(***************************************************************************)
(* A model of the onego-project/xmlrpc client: the native-to-wire          *)
(* converter (client.go), the wire-value builders (payload.go), the        *)
(* response decoder (result.go) and the Call orchestration.                *)
(*                                                                         *)
(* Text is a sequence of one-character strings, so that the conversions    *)
(* the code performs on text (strconv, base64, time) are computed          *)
(* character by character.  An XML element is a record                     *)
(* [tag, text, kids]: its tag, the character data that follows its         *)
(* opening tag (etree's Text()) and its child elements in document order.  *)
(***************************************************************************)
EXTENDS Integers, Sequences, FiniteSets, TLC

VARIABLES
    endpoint,   \* Client.endpoint: "valid" or "invalid" (does it parse as a URL)
    peer,       \* the behaviour of the server behind the transport
    args,       \* the arguments of Call, native values
    pc,         \* the position of Call
    idx,        \* preparePayload: index of the next argument to convert
    payload,    \* preparePayload: the payload document built so far
    buffer,     \* the serialized request, <<>> until payload.WriteTo ran
    sent,       \* number of requests handed to http.Client.Do
    body,       \* the response body makeRequest returned, <<>> if none
    parsed,     \* number of bodies handed to parseResult
    result,     \* Call's *Result: <<>> is nil, <<r>> points to r
    err         \* Call's error: NoErr is nil

vars == <<endpoint, peer, args, pc, idx, payload, buffer, sent, body, parsed, result, err>>

(***************************************************************************)
(* Bounds of the model.                                                    *)
(***************************************************************************)
\* the longest array and the longest struct of a canned response
MaxLen == 2
\* the largest number of members of a canned fault
MaxFaultMembers == 3
\* the longest argument list of a call
MaxArgs == 2

(***************************************************************************)
(* Elements (etree.Element as the code uses it).                           *)
(***************************************************************************)
Elem(tag, text, kids) == [tag |-> tag, text |-> text, kids |-> kids]

\* e.ChildElements(): the child elements in document order
ChildElements(e) == e.kids

\* e.Text()
Text(e) == e.text

\* the children of e that carry the tag, in document order
RECURSIVE SelectTag(_, _)
SelectTag(kids, tag) ==
    IF kids = <<>> THEN <<>>
    ELSE IF Head(kids).tag = tag
         THEN <<Head(kids)>> \o SelectTag(Tail(kids), tag)
         ELSE SelectTag(Tail(kids), tag)

\* the concatenation of the tag-children of every element of es
RECURSIVE StepPath(_, _)
StepPath(es, tag) ==
    IF es = <<>> THEN <<>>
    ELSE SelectTag(Head(es).kids, tag) \o StepPath(Tail(es), tag)

\* e.FindElements(path) for a relative path of tag names: every element
\* reached from e by following the tags, in document order
RECURSIVE WalkPath(_, _)
WalkPath(es, path) ==
    IF path = <<>> THEN es ELSE WalkPath(StepPath(es, Head(path)), Tail(path))

FindElements(e, path) == WalkPath(<<e>>, path)

\* e.FindElement(path): the first match as <<m>>, or <<>> for nil
FindElement(e, path) ==
    LET found == FindElements(e, path)
    IN  IF found = <<>> THEN <<>> ELSE <<Head(found)>>

(***************************************************************************)
(* strconv: integers and booleans as text.                                 *)
(***************************************************************************)
Digits == <<"0", "1", "2", "3", "4", "5", "6", "7", "8", "9">>

IsDigit(c) == \E i \in 1..Len(Digits) : Digits[i] = c

DigitVal(c) == (CHOOSE i \in 1..Len(Digits) : Digits[i] = c) - 1

RECURSIVE FormatUint(_)
FormatUint(n) ==
    IF n < Len(Digits) THEN <<Digits[n + 1]>>
    ELSE Append(FormatUint(n \div Len(Digits)), Digits[(n % Len(Digits)) + 1])

\* strconv.FormatInt(data, 10)
FormatInt(n) == IF n < 0 THEN <<"-">> \o FormatUint(-n) ELSE FormatUint(n)

RECURSIVE DigitsValue(_, _)
DigitsValue(s, acc) ==
    IF s = <<>> THEN acc
    ELSE DigitsValue(Tail(s), acc * Len(Digits) + DigitVal(Head(s)))

AllDigits(s) == \A i \in 1..Len(s) : IsDigit(s[i])

\* strconv.Atoi(s): an optional sign, then one or more decimal digits.
\* (The range check against the width of int is left out: every text of
\* the model is far shorter than the 19 digits it takes to overflow.)
Atoi(s) ==
    LET signed == s # <<>> /\ Head(s) \in {"-", "+"}
        ds     == IF signed THEN Tail(s) ELSE s
    IN  IF ds = <<>> \/ ~AllDigits(ds) THEN [ok |-> FALSE, val |-> 0]
        ELSE [ok  |-> TRUE,
              val |-> IF signed /\ Head(s) = "-" THEN -DigitsValue(ds, 0)
                      ELSE DigitsValue(ds, 0)]

TrueTexts  == {<<"1">>, <<"t">>, <<"T">>, <<"T", "R", "U", "E">>,
               <<"t", "r", "u", "e">>, <<"T", "r", "u", "e">>}
FalseTexts == {<<"0">>, <<"f">>, <<"F">>, <<"F", "A", "L", "S", "E">>,
               <<"f", "a", "l", "s", "e">>, <<"F", "a", "l", "s", "e">>}

\* strconv.ParseBool(s)
ParseBool(s) ==
    IF s \in TrueTexts THEN [ok |-> TRUE, val |-> TRUE]
    ELSE IF s \in FalseTexts THEN [ok |-> TRUE, val |-> FALSE]
    ELSE [ok |-> FALSE, val |-> FALSE]

(***************************************************************************)
(* strconv: floating point numbers.  A float64 is modelled by its shortest *)
(* round-trippable decimal, [neg, mant, exp] standing for                  *)
(* (-1)^neg * mant / 10^exp, normalised so that exp = 0 or mant is not a   *)
(* multiple of ten.  The texts of the model carry no exponent, no hex      *)
(* digits and no inf/nan, so only the plain decimal grammar is modelled.   *)
(***************************************************************************)
Dec(neg, mant, exp) == [neg |-> neg, mant |-> mant, exp |-> exp]

ZeroDouble == Dec(FALSE, 0, 0)

RECURSIVE NormDec(_)
NormDec(d) ==
    IF d.exp > 0 /\ d.mant % Len(Digits) = 0
    THEN NormDec(Dec(d.neg, d.mant \div Len(Digits), d.exp - 1))
    ELSE d

RECURSIVE LeftPad(_, _)
LeftPad(s, n) == IF Len(s) >= n THEN s ELSE LeftPad(<<"0">> \o s, n)

\* strconv.FormatFloat(data, 'f', -1, 64)
FormatFloat(d) ==
    LET ds   == LeftPad(FormatUint(d.mant), d.exp + 1)
        cut  == Len(ds) - d.exp
        txt  == IF d.exp = 0 THEN ds
                ELSE SubSeq(ds, 1, cut) \o <<".">> \o SubSeq(ds, cut + 1, Len(ds))
    IN  IF d.neg THEN <<"-">> \o txt ELSE txt

\* index of the first "." of s, or Len(s) + 1
FirstDot(s) ==
    IF \E i \in 1..Len(s) : s[i] = "."
    THEN CHOOSE i \in 1..Len(s) : s[i] = "." /\ \A j \in 1..(i - 1) : s[j] # "."
    ELSE Len(s) + 1

\* strconv.ParseFloat(s, 64)
ParseFloat(s) ==
    LET signed == s # <<>> /\ Head(s) \in {"-", "+"}
        ds     == IF signed THEN Tail(s) ELSE s
        dot    == FirstDot(ds)
        ip     == SubSeq(ds, 1, dot - 1)
        fp     == SubSeq(ds, dot + 1, Len(ds))
    IN  IF ip \o fp = <<>> \/ ~AllDigits(ip \o fp)
        THEN [ok |-> FALSE, val |-> ZeroDouble]
        ELSE [ok  |-> TRUE,
              val |-> NormDec(Dec(signed /\ Head(s) = "-",
                                  DigitsValue(ip \o fp, 0), Len(fp)))]

(***************************************************************************)
(* encoding/base64, StdEncoding.  A byte is a number in 0..255.            *)
(***************************************************************************)
B64 == <<"A", "B", "C", "D", "E", "F", "G", "H", "I", "J", "K", "L", "M",
         "N", "O", "P", "Q", "R", "S", "T", "U", "V", "W", "X", "Y", "Z",
         "a", "b", "c", "d", "e", "f", "g", "h", "i", "j", "k", "l", "m",
         "n", "o", "p", "q", "r", "s", "t", "u", "v", "w", "x", "y", "z",
         "0", "1", "2", "3", "4", "5", "6", "7", "8", "9", "+", "/">>

IsB64(c) == \E i \in 1..Len(B64) : B64[i] = c

B64Val(c) == (CHOOSE i \in 1..Len(B64) : B64[i] = c) - 1

B64Char(v) == B64[(v % 64) + 1]

\* base64.StdEncoding.EncodeToString(data)
RECURSIVE EncodeToString(_)
EncodeToString(b) ==
    IF b = <<>> THEN <<>>
    ELSE IF Len(b) = 1 THEN
        LET v == b[1] * 65536
        IN  <<B64Char(v \div 262144), B64Char(v \div 4096), "=", "=">>
    ELSE IF Len(b) = 2 THEN
        LET v == b[1] * 65536 + b[2] * 256
        IN  <<B64Char(v \div 262144), B64Char(v \div 4096), B64Char(v \div 64), "=">>
    ELSE
        LET v == b[1] * 65536 + b[2] * 256 + b[3]
        IN  <<B64Char(v \div 262144), B64Char(v \div 4096), B64Char(v \div 64), B64Char(v)>>
            \o EncodeToString(SubSeq(b, 4, Len(b)))

RECURSIVE DropNewlines(_)
DropNewlines(s) ==
    IF s = <<>> THEN <<>>
    ELSE IF Head(s) \in {"\n", "\r"} THEN DropNewlines(Tail(s))
    ELSE <<Head(s)>> \o DropNewlines(Tail(s))

\* the decoder's quantum loop over text without line breaks
RECURSIVE DecodeQuanta(_)
DecodeQuanta(s) ==
    IF s = <<>> THEN [ok |-> TRUE, val |-> <<>>]
    ELSE IF Len(s) < 4 \/ ~IsB64(s[1]) \/ ~IsB64(s[2]) THEN [ok |-> FALSE, val |-> <<>>]
    ELSE
        LET v12 == B64Val(s[1]) * 262144 + B64Val(s[2]) * 4096
        IN  IF s[3] = "="
            THEN IF s[4] = "=" /\ Len(s) = 4
                 THEN [ok |-> TRUE, val |-> <<v12 \div 65536>>]
                 ELSE [ok |-> FALSE, val |-> <<>>]
            ELSE IF ~IsB64(s[3]) THEN [ok |-> FALSE, val |-> <<>>]
            ELSE IF s[4] = "="
            THEN IF Len(s) = 4
                 THEN LET v == v12 + B64Val(s[3]) * 64
                      IN  [ok |-> TRUE, val |-> <<v \div 65536, (v \div 256) % 256>>]
                 ELSE [ok |-> FALSE, val |-> <<>>]
            ELSE IF ~IsB64(s[4]) THEN [ok |-> FALSE, val |-> <<>>]
            ELSE
                LET v    == v12 + B64Val(s[3]) * 64 + B64Val(s[4])
                    rest == DecodeQuanta(SubSeq(s, 5, Len(s)))
                IN  IF rest.ok
                    THEN [ok  |-> TRUE,
                          val |-> <<v \div 65536, (v \div 256) % 256, v % 256>> \o rest.val]
                    ELSE [ok |-> FALSE, val |-> <<>>]

\* base64.StdEncoding.DecodeString(s)
DecodeString(s) == DecodeQuanta(DropNewlines(s))

(***************************************************************************)
(* time.Time: an instant (seconds since 1970 and nanoseconds) with the     *)
(* offset of its location in seconds east of UTC; zero marks the zero      *)
(* Time.  Years stay within 1970..2037 so that seconds fit 32-bit         *)
(* integers.                                                               *)
(***************************************************************************)
Time(unix, nsec, off) == [zero |-> FALSE, unix |-> unix, nsec |-> nsec, off |-> off]

ZeroTime == [zero |-> TRUE, unix |-> 0, nsec |-> 0, off |-> 0]

\* data.UTC()
UTC(t) == [t EXCEPT !.off = 0]

\* the civil date of a day number counted from 1970-01-01
CivilFromDays(days) ==
    LET z    == days + 719468
        era  == z \div 146097
        doe  == z - era * 146097
        yoe  == (doe - doe \div 1460 + doe \div 36524 - doe \div 146096) \div 365
        doy  == doe - (365 * yoe + yoe \div 4 - yoe \div 100)
        mp   == (5 * doy + 2) \div 153
        d    == doy - (153 * mp + 2) \div 5 + 1
        m    == IF mp < 10 THEN mp + 3 ELSE mp - 9
        y    == yoe + era * 400 + (IF m <= 2 THEN 1 ELSE 0)
    IN  [year |-> y, month |-> m, day |-> d]

\* the day number of a civil date
DaysFromCivil(year, month, day) ==
    LET y    == IF month <= 2 THEN year - 1 ELSE year
        era  == y \div 400
        yoe  == y - era * 400
        doy  == (153 * (IF month > 2 THEN month - 3 ELSE month + 9) + 2) \div 5 + day - 1
        doe  == yoe * 365 + yoe \div 4 - yoe \div 100 + doy
    IN  era * 146097 + doe - 719468

IsLeap(y) == y % 4 = 0 /\ (y % 100 # 0 \/ y % 400 = 0)

DaysIn(month, year) ==
    IF month = 2 THEN (IF IsLeap(year) THEN 29 ELSE 28)
    ELSE IF month \in {4, 6, 9, 11} THEN 30 ELSE 31

Pad(n, width) == LeftPad(FormatUint(n), width)

\* the zone of layout element -0700
FormatZone(off) ==
    LET a == IF off < 0 THEN -off ELSE off
    IN  <<IF off < 0 THEN "-" ELSE "+">> \o Pad(a \div 3600, 2) \o Pad((a % 3600) \div 60, 2)

\* t.Format(timeFormat), timeFormat = "2006-01-02T15:04:05-0700"
FormatTime(t) ==
    LET local == t.unix + t.off
        c     == CivilFromDays(local \div 86400)
        sod   == local % 86400
    IN  Pad(c.year, 4) \o <<"-">> \o Pad(c.month, 2) \o <<"-">> \o Pad(c.day, 2)
        \o <<"T">> \o Pad(sod \div 3600, 2) \o <<":">> \o Pad((sod % 3600) \div 60, 2)
        \o <<":">> \o Pad(sod % 60, 2) \o FormatZone(t.off)

\* the number of leading digits of s
RECURSIVE DigitRun(_)
DigitRun(s) == IF s = <<>> \/ ~IsDigit(Head(s)) THEN 0 ELSE 1 + DigitRun(Tail(s))

RECURSIVE RightPad(_, _)
RightPad(s, n) == IF Len(s) >= n THEN SubSeq(s, 1, n) ELSE RightPad(Append(s, "0"), n)

NoTime == [ok |-> FALSE, val |-> ZeroTime]

\* layout element Z07:00 on the rest of the value: "Z", or a sign, two
\* digits, a colon and two digits; nothing may follow
ParseZone(z) ==
    IF z = <<"Z">> THEN [ok |-> TRUE, off |-> 0]
    ELSE IF Len(z) = 6 /\ z[1] \in {"+", "-"} /\ z[4] = ":"
            /\ AllDigits(SubSeq(z, 2, 3)) /\ AllDigits(SubSeq(z, 5, 6))
    THEN LET hh == DigitsValue(SubSeq(z, 2, 3), 0)
             mm == DigitsValue(SubSeq(z, 5, 6), 0)
             a  == hh * 3600 + mm * 60
         IN  [ok |-> TRUE, off |-> IF z[1] = "-" THEN -a ELSE a]
    ELSE [ok |-> FALSE, off |-> 0]

\* time.Parse(time.RFC3339, s), time.RFC3339 = "2006-01-02T15:04:05Z07:00"
ParseRFC3339(s) ==
    IF Len(s) < 19 \/ s[5] # "-" \/ s[8] # "-" \/ s[11] # "T" \/ s[14] # ":" \/ s[17] # ":"
       \/ ~AllDigits(SubSeq(s, 1, 4) \o SubSeq(s, 6, 7) \o SubSeq(s, 9, 10)
                     \o SubSeq(s, 12, 13) \o SubSeq(s, 15, 16) \o SubSeq(s, 18, 19))
    THEN NoTime
    ELSE
        LET year  == DigitsValue(SubSeq(s, 1, 4), 0)
            month == DigitsValue(SubSeq(s, 6, 7), 0)
            day   == DigitsValue(SubSeq(s, 9, 10), 0)
            hour  == DigitsValue(SubSeq(s, 12, 13), 0)
            min   == DigitsValue(SubSeq(s, 15, 16), 0)
            sec   == DigitsValue(SubSeq(s, 18, 19), 0)
            rest  == SubSeq(s, 20, Len(s))
            frac  == IF Len(rest) >= 2 /\ rest[1] \in {".", ","} /\ IsDigit(rest[2])
                     THEN 1 + DigitRun(Tail(rest)) ELSE 0
            nsec  == IF frac = 0 THEN 0
                     ELSE DigitsValue(RightPad(SubSeq(rest, 2, frac), 9), 0)
            zone  == ParseZone(SubSeq(rest, frac + 1, Len(rest)))
        IN  IF month < 1 \/ month > 12 \/ day < 1 \/ day > DaysIn(month, year)
               \/ hour > 23 \/ min > 59 \/ sec > 59 \/ ~zone.ok
            THEN NoTime
            ELSE [ok  |-> TRUE,
                  val |-> Time(DaysFromCivil(year, month, day) * 86400
                               + hour * 3600 + min * 60 + sec - zone.off,
                               nsec, zone.off)]

(***************************************************************************)
(* Errors (github.com/pkg/errors): the chain of messages, outermost        *)
(* first, the type or tag name the innermost message was formatted with,   *)
(* and the texts it was formatted with.  NoErr is the nil error.           *)
(***************************************************************************)
NoErr == [chain |-> <<>>, name |-> "", texts |-> <<>>]

Errorf(msg, name, texts) == [chain |-> <<msg>>, name |-> name, texts |-> texts]

Wrap(e, msg) == [e EXCEPT !.chain = <<msg>> \o @]

(***************************************************************************)
(* payload.go: the wire-value builders.                                    *)
(***************************************************************************)
enMethodCall == "methodCall"
enMethodName == "methodName"
enParams     == "params"
enParam      == "param"
enValue      == "value"
enInt        == "int"
enBoolean    == "boolean"
enString     == "string"
enDouble     == "double"
enDateTime   == "dateTime.iso8601"
enBase64     == "base64"
enMember     == "member"
enName       == "name"
enStruct     == "struct"
enArray      == "array"
enData       == "data"

\* index of the first child carrying the tag, 0 if there is none
FirstIndex(kids, tag) ==
    IF \E i \in 1..Len(kids) : kids[i].tag = tag
    THEN CHOOSE i \in 1..Len(kids) :
             kids[i].tag = tag /\ \A j \in 1..(i - 1) : kids[j].tag # tag
    ELSE 0

\* e.AddChild(c)
AddChild(e, c) == [e EXCEPT !.kids = Append(@, c)]

\* the document: etree.Document embeds an Element whose children are the
\* root elements (the processing instruction is a token, not an element)
newPayload(methodName) ==
    Elem("", <<>>,
         <<Elem(enMethodCall, <<>>,
                <<Elem(enMethodName, methodName, <<>>), Elem(enParams, <<>>, <<>>)>>)>>)

newScalar(typeName, data) == Elem(typeName, data, <<>>)

\* newInt writing the magnitude of the number only
newIntMagnitude(data) == newScalar(enInt, FormatUint(IF data < 0 THEN -data ELSE data))

newInt(data) == newScalar(enInt, FormatInt(data))

newBoolean(data) == IF data THEN newScalar(enBoolean, <<"1">>) ELSE newScalar(enBoolean, <<"0">>)

newString(data) == newScalar(enString, data)

newDouble(data) == newScalar(enDouble, FormatFloat(data))

newDateTime(data) == newScalar(enDateTime, FormatTime(UTC(data)))

newBase64(data) == newScalar(enBase64, EncodeToString(data))

newStruct == Elem(enStruct, <<>>, <<>>)

newArray == Elem(enArray, <<>>, <<Elem(enData, <<>>, <<>>)>>)

wrapToValue(v) == Elem(enValue, <<>>, <<v>>)

toParam(v) == Elem(enParam, <<>>, <<v>>)

\* p.addParam(v): the param goes under the first methodCall/params
addParam(p, v) ==
    LET i == FirstIndex(p.kids, enMethodCall)
        j == FirstIndex(p.kids[i].kids, enParams)
    IN  [p EXCEPT !.kids[i].kids[j] = AddChild(@, toParam(wrapToValue(v)))]

newMember(name, v) ==
    Elem(enMember, <<>>, <<Elem(enName, name, <<>>), wrapToValue(v)>>)

\* s.addMember(name, v)
addMember(s, name, v) == AddChild(s, newMember(name, v))

\* a.addValue(v): the value goes under the first data child
addValue(a, v) ==
    LET i == FirstIndex(a.kids, enData)
    IN  [a EXCEPT !.kids[i] = AddChild(@, wrapToValue(v))]

(***************************************************************************)
(* client.go: the native-to-wire converter.                                *)
(*                                                                         *)
(* A native value is a record: t names its type (a scalar type, "nil"     *)
(* for the untyped nil, "time.Time", "food" for another struct type,       *)
(* "slice", "array" or "map"); elem names the static element type of a     *)
(* slice or array and the key type of a map; the other fields hold the     *)
(* value, each type using its own: bool, num, text, dec (a float), time,   *)
(* items (the elements of a slice or array) and map (a function from the   *)
(* printed keys to native values).                                         *)
(*                                                                         *)
(* A conversion ends in one of three ways: it returns a wire value, it     *)
(* returns an error, or it panics.  reflect's MapKeys returns the keys in  *)
(* an unspecified order, so a conversion has a set of possible outcomes.   *)
(***************************************************************************)
Nil ==
    [t |-> "nil", elem |-> "", bool |-> FALSE, num |-> 0, text |-> <<>>,
     dec |-> ZeroDouble, time |-> ZeroTime, items |-> <<>>, map |-> <<>>]

Ok(v) == [st |-> "ok", val |-> <<v>>, err |-> NoErr]

Fail(e) == [st |-> "err", val |-> <<>>, err |-> e]

Panic == [st |-> "panic", val |-> <<>>, err |-> NoErr]

\* reflect.ValueOf(arg).Kind().String()
KindOf(arg) ==
    CASE arg.t = "nil" -> "invalid"
      [] arg.t \in {"time.Time", "food"} -> "struct"
      [] OTHER -> arg.t

\* the bytes of a sequence of uint8 values
BytesOf(items) == [i \in 1..Len(items) |-> items[i].num]

\* every order in which the keys of a map may be returned
KeyOrders(m) ==
    LET n == Cardinality(DOMAIN m)
    IN  {ks \in [1..n -> DOMAIN m] : \A i, j \in 1..n : ks[i] = ks[j] => i = j}

RECURSIVE toValue(_)
RECURSIVE constructArrayFrom(_, _, _)
RECURSIVE constructStructFrom(_, _, _, _)

\* the loop of constructArray from index i on, array being built so far
constructArrayFrom(items, i, array) ==
    IF i > Len(items) THEN {Ok(array)}
    ELSE UNION {IF o.st = "ok"
                THEN constructArrayFrom(items, i + 1, addValue(array, o.val[1]))
                ELSE {o} : o \in toValue(items[i])}

\* constructArray refusing a sequence without elements, as the decoder does
constructArrayNonEmpty(v) ==
    IF v.items = <<>> THEN {Fail(Errorf("no values found in array", "", <<>>))}
    ELSE constructArrayFrom(v.items, 1, newArray)

constructArray(v) == constructArrayFrom(v.items, 1, newArray)

\* the loop of constructStruct over the keys from index i on
constructStructFrom(v, keys, i, s) ==
    IF i > Len(keys) THEN {Ok(s)}
    ELSE IF v.elem # "string" THEN {Fail(Errorf("invalid type", KindOf(v), <<>>))}
    ELSE UNION {IF o.st = "ok"
                THEN constructStructFrom(v, keys, i + 1, addMember(s, keys[i], o.val[1]))
                ELSE {o} : o \in toValue(v.map[keys[i]])}

constructStruct(v) ==
    UNION {constructStructFrom(v, keys, 1, newStruct) : keys \in KeyOrders(v.map)}

\* arg.([]byte) succeeds only when the dynamic type is []uint8
IsByteSlice(arg) == arg.t = "slice" /\ arg.elem = "uint8"

toValue(arg) ==
    LET k == KindOf(arg)
    IN  CASE k = "bool" -> {Ok(newBoolean(arg.bool))}
          [] k \in {"int", "int8", "int16", "int32"} -> {Ok(newInt(arg.num))}
          [] k \in {"float32", "float64"} -> {Ok(newDouble(arg.dec))}
          [] k = "string" -> {Ok(newString(arg.text))}
          [] k = "struct" ->
                IF arg.t # "time.Time"
                THEN {Fail(Errorf("invalid type", k, <<>>))}
                ELSE {Ok(newDateTime(arg.time))}
          [] k \in {"array", "slice"} ->
                IF arg.elem = "uint8"
                THEN (IF IsByteSlice(arg) THEN {Ok(newBase64(BytesOf(arg.items)))} ELSE {Panic})
                ELSE constructArray(arg)
          [] k = "map" -> constructStruct(arg)
          [] OTHER -> {Fail(Errorf("invalid type", k, <<>>))}

(***************************************************************************)
(* result.go: the response decoder.                                        *)
(***************************************************************************)
KindInvalid  == 0
KindArray    == 1
KindBase64   == 2
KindBool     == 3
KindDateTime == 4
KindDouble   == 5
KindInt      == 6
KindString   == 7
KindStruct   == 8

methodResponseValuePath    == <<"methodResponse", "params", "param", "value">>
methodResponseFaultPath    == <<"methodResponse", "fault">>
arrayValuePath             == <<"data", "value">>
faultMembersPath           == <<"value", "struct", "member">>
faultCodeName              == <<"f", "a", "u", "l", "t", "C", "o", "d", "e">>
faultStringName            == <<"f", "a", "u", "l", "t", "S", "t", "r", "i", "n", "g">>
faultMemberNameTag         == <<"name">>
faultMemberValueIntPath    == <<"value", "int">>
faultMemberValueI4Path     == <<"value", "i4">>
faultMemberValueStringPath == <<"value", "string">>
structMemberPath           == <<"member">>
structMemberNameTag        == <<"name">>
structMemberValueTag       == <<"value">>

\* the zero Result: every field holds the zero value of its type (a nil
\* slice and a nil map are the empty sequence and the empty function)
ZeroResult ==
    [kind        |-> KindInvalid,
     resString   |-> <<>>,
     resInt      |-> 0,
     resBoolean  |-> FALSE,
     resDouble   |-> ZeroDouble,
     resDateTime |-> ZeroTime,
     resBase64   |-> <<>>,
     resStruct   |-> <<>>,
     resArray    |-> <<>>]

\* what a parse function returns: res is <<>> for a nil *Result (or a nil
\* slice or map), <<r>> otherwise; err is NoErr for a nil error
Return(r) == [res |-> <<r>>, err |-> NoErr]

Failed(e) == [res |-> <<>>, err |-> e]

oneChildMsg == "'value' tag doesn't contain exactly one child tag"

RECURSIVE parseElement(_)
RECURSIVE parseArrayFrom(_, _, _)
RECURSIVE parseStructFrom(_, _, _)

\* the loop of parseArray keeping what it decoded when a value fails
RECURSIVE parseArrayFromKeepDecoded(_, _, _)
parseArrayFromKeepDecoded(elements, i, results) ==
    IF i > Len(elements)
    THEN (IF Len(results) = 0
          THEN Failed(Errorf("no values found in array", "", <<>>))
          ELSE Return(results))
    ELSE
        LET childElements == ChildElements(elements[i])
        IN  IF Len(childElements) # 1
            THEN Failed(Errorf(oneChildMsg, "", <<>>))
            ELSE LET value == parseElement(childElements[1])
                 IN  IF value.err # NoErr
                     THEN parseArrayFromKeepDecoded(elements, i + 1, results)
                     ELSE parseArrayFromKeepDecoded(elements, i + 1,
                                                    Append(results, value.res[1]))

\* the loop of parseArray decoding the first child of a value element
\* that has several
RECURSIVE parseArrayFromFirstChild(_, _, _)
parseArrayFromFirstChild(elements, i, results) ==
    IF i > Len(elements)
    THEN (IF Len(results) = 0
          THEN Failed(Errorf("no values found in array", "", <<>>))
          ELSE Return(results))
    ELSE
        LET childElements == ChildElements(elements[i])
        IN  IF Len(childElements) = 0
            THEN Failed(Errorf(oneChildMsg, "", <<>>))
            ELSE LET value == parseElement(childElements[1])
                 IN  IF value.err # NoErr THEN Failed(value.err)
                     ELSE parseArrayFromFirstChild(elements, i + 1,
                                                   Append(results, value.res[1]))

\* the loop of parseArray over the value elements from index i on
parseArrayFrom(elements, i, results) ==
    IF i > Len(elements)
    THEN (IF Len(results) = 0
          THEN Failed(Errorf("no values found in array", "", <<>>))
          ELSE Return(results))
    ELSE
        LET childElements == ChildElements(elements[i])
        IN  IF Len(childElements) # 1
            THEN Failed(Errorf(oneChildMsg, "", <<>>))
            ELSE LET value == parseElement(childElements[1])
                 IN  IF value.err # NoErr THEN Failed(value.err)
                     ELSE parseArrayFrom(elements, i + 1, Append(results, value.res[1]))

\* parseArray without its check for an empty result
parseArrayAllowEmpty(e) ==
    IF FindElements(e, arrayValuePath) = <<>> THEN Return(<<>>)
    ELSE parseArrayFrom(FindElements(e, arrayValuePath), 1, <<>>)

parseArray(e) == parseArrayFrom(FindElements(e, arrayValuePath), 1, <<>>)

\* the loop of parseStruct without its check for a name seen before: the
\* later member overwrites the earlier one
RECURSIVE parseStructFromOverwrite(_, _, _)
parseStructFromOverwrite(members, i, results) ==
    IF i > Len(members)
    THEN (IF Cardinality(DOMAIN results) = 0
          THEN Failed(Errorf("no members found in struct", "", <<>>))
          ELSE Return(results))
    ELSE
        LET name  == FindElement(members[i], structMemberNameTag)
            value == FindElement(members[i], structMemberValueTag)
        IN  IF name = <<>>
            THEN Failed(Errorf("no 'name' tag found for struct member", "", <<>>))
            ELSE IF value = <<>>
            THEN Failed(Errorf("no 'value' tag found for struct member", "", <<>>))
            ELSE
                LET childElements == ChildElements(value[1])
                IN  IF Len(childElements) # 1
                    THEN Failed(Errorf(oneChildMsg, "", <<>>))
                    ELSE LET ret == parseElement(childElements[1])
                         IN  IF ret.err # NoErr THEN Failed(ret.err)
                             ELSE parseStructFromOverwrite(members, i + 1,
                                      (Text(name[1]) :> ret.res[1]) @@ results)

\* the loop of parseStruct over the member elements from index i on
parseStructFrom(members, i, results) ==
    IF i > Len(members)
    THEN (IF Cardinality(DOMAIN results) = 0
          THEN Failed(Errorf("no members found in struct", "", <<>>))
          ELSE Return(results))
    ELSE
        LET name  == FindElement(members[i], structMemberNameTag)
            value == FindElement(members[i], structMemberValueTag)
        IN  IF name = <<>>
            THEN Failed(Errorf("no 'name' tag found for struct member", "", <<>>))
            ELSE IF value = <<>>
            THEN Failed(Errorf("no 'value' tag found for struct member", "", <<>>))
            ELSE IF Text(name[1]) \in DOMAIN results
            THEN Failed(Errorf("struct member found multiple times", "", <<Text(name[1])>>))
            ELSE
                LET childElements == ChildElements(value[1])
                IN  IF Len(childElements) # 1
                    THEN Failed(Errorf(oneChildMsg, "", <<>>))
                    ELSE LET ret == parseElement(childElements[1])
                         IN  IF ret.err # NoErr THEN Failed(ret.err)
                             ELSE parseStructFrom(members, i + 1,
                                                  results @@ (Text(name[1]) :> ret.res[1]))

parseStruct(e) == parseStructFrom(FindElements(e, structMemberPath), 1, <<>>)

\* parseElement without the i4 alias of int
parseElementWithoutI4(e) ==
    CASE e.tag = "string" ->
            Return([ZeroResult EXCEPT !.resString = Text(e), !.kind = KindString])
      [] e.tag = "int" ->
            LET number == Atoi(Text(e))
            IN  IF ~number.ok
                THEN Failed(Wrap(Errorf("strconv.Atoi: invalid syntax", "", <<>>),
                                 "cannot convert to integer"))
                ELSE Return([ZeroResult EXCEPT !.resInt = number.val, !.kind = KindInt])
      [] e.tag = "boolean" ->
            LET boolean == ParseBool(Text(e))
            IN  IF ~boolean.ok
                THEN Failed(Wrap(Errorf("strconv.ParseBool: invalid syntax", "", <<>>),
                                 "cannot convert to boolean"))
                ELSE Return([ZeroResult EXCEPT !.resBoolean = boolean.val, !.kind = KindBool])
      [] e.tag = "double" ->
            LET double == ParseFloat(Text(e))
            IN  IF ~double.ok
                THEN Failed(Wrap(Errorf("strconv.ParseFloat: invalid syntax", "", <<>>),
                                 "cannot convert to floating point number"))
                ELSE Return([ZeroResult EXCEPT !.resDouble = double.val, !.kind = KindDouble])
      [] e.tag = "dateTime.iso8601" ->
            LET time == ParseRFC3339(Text(e))
            IN  IF ~time.ok
                THEN Failed(Wrap(Errorf("parsing time: cannot parse", "", <<>>),
                                 "cannot convert to a date"))
                ELSE Return([ZeroResult EXCEPT !.resDateTime = time.val, !.kind = KindDateTime])
      [] e.tag = "base64" ->
            LET base64 == DecodeString(Text(e))
            IN  IF ~base64.ok
                THEN Failed(Wrap(Errorf("illegal base64 data", "", <<>>),
                                 "cannot decode as base64"))
                ELSE Return([ZeroResult EXCEPT !.resBase64 = base64.val, !.kind = KindBase64])
      [] e.tag = "array" ->
            LET results == parseArray(e)
            IN  IF results.err # NoErr THEN Failed(results.err)
                ELSE Return([ZeroResult EXCEPT !.resArray = results.res[1], !.kind = KindArray])
      [] e.tag = "struct" ->
            LET results == parseStruct(e)
            IN  IF results.err # NoErr THEN Failed(results.err)
                ELSE Return([ZeroResult EXCEPT !.resStruct = results.res[1], !.kind = KindStruct])
      [] OTHER -> Failed(Errorf("cannot recognize tag", e.tag, <<>>))

parseElement(e) ==
    CASE e.tag = "string" ->
            Return([ZeroResult EXCEPT !.resString = Text(e), !.kind = KindString])
      [] e.tag \in {"int", "i4"} ->
            LET number == Atoi(Text(e))
            IN  IF ~number.ok
                THEN Failed(Wrap(Errorf("strconv.Atoi: invalid syntax", "", <<>>),
                                 "cannot convert to integer"))
                ELSE Return([ZeroResult EXCEPT !.resInt = number.val, !.kind = KindInt])
      [] e.tag = "boolean" ->
            LET boolean == ParseBool(Text(e))
            IN  IF ~boolean.ok
                THEN Failed(Wrap(Errorf("strconv.ParseBool: invalid syntax", "", <<>>),
                                 "cannot convert to boolean"))
                ELSE Return([ZeroResult EXCEPT !.resBoolean = boolean.val, !.kind = KindBool])
      [] e.tag = "double" ->
            LET double == ParseFloat(Text(e))
            IN  IF ~double.ok
                THEN Failed(Wrap(Errorf("strconv.ParseFloat: invalid syntax", "", <<>>),
                                 "cannot convert to floating point number"))
                ELSE Return([ZeroResult EXCEPT !.resDouble = double.val, !.kind = KindDouble])
      [] e.tag = "dateTime.iso8601" ->
            LET time == ParseRFC3339(Text(e))
            IN  IF ~time.ok
                THEN Failed(Wrap(Errorf("parsing time: cannot parse", "", <<>>),
                                 "cannot convert to a date"))
                ELSE Return([ZeroResult EXCEPT !.resDateTime = time.val, !.kind = KindDateTime])
      [] e.tag = "base64" ->
            LET base64 == DecodeString(Text(e))
            IN  IF ~base64.ok
                THEN Failed(Wrap(Errorf("illegal base64 data", "", <<>>),
                                 "cannot decode as base64"))
                ELSE Return([ZeroResult EXCEPT !.resBase64 = base64.val, !.kind = KindBase64])
      [] e.tag = "array" ->
            LET results == parseArray(e)
            IN  IF results.err # NoErr THEN Failed(results.err)
                ELSE Return([ZeroResult EXCEPT !.resArray = results.res[1], !.kind = KindArray])
      [] e.tag = "struct" ->
            LET results == parseStruct(e)
            IN  IF results.err # NoErr THEN Failed(results.err)
                ELSE Return([ZeroResult EXCEPT !.resStruct = results.res[1], !.kind = KindStruct])
      [] OTHER -> Failed(Errorf("cannot recognize tag", e.tag, <<>>))

\* parseValue keeping the text of the type tag in resString for every kind
parseValueKeepText(e) ==
    LET childElements == ChildElements(e)
    IN  IF Len(childElements) # 1
        THEN Failed(Errorf(oneChildMsg, "", <<>>))
        ELSE LET r == parseElement(childElements[1])
             IN  IF r.err # NoErr THEN r
                 ELSE Return([r.res[1] EXCEPT !.resString = Text(childElements[1])])

parseValue(e) ==
    LET childElements == ChildElements(e)
    IN  IF Len(childElements) # 1
        THEN Failed(Errorf(oneChildMsg, "", <<>>))
        ELSE parseElement(childElements[1])

\* parseFault's loop matching the members by position instead of by name
faultLoopByPosition(members, i, errCode, errMsg) ==
    LET int == IF Len(members) < 1 THEN <<>>
               ELSE FindElement(members[1], faultMemberValueIntPath)
    IN  [errCode |-> IF int = <<>> /\ Len(members) >= 1
                     THEN FindElement(members[1], faultMemberValueI4Path)
                     ELSE int,
         errMsg  |-> IF Len(members) < 2 THEN <<>>
                     ELSE FindElement(members[2], faultMemberValueStringPath)]

\* the loop of parseFault over the members from index i on; errCode and
\* errMsg are <<>> for nil.  A member without a name ends the loop.
RECURSIVE faultLoop(_, _, _, _)
faultLoop(members, i, errCode, errMsg) ==
    IF i > Len(members) THEN [errCode |-> errCode, errMsg |-> errMsg]
    ELSE
        LET name == FindElement(members[i], faultMemberNameTag)
        IN  IF name = <<>> THEN [errCode |-> errCode, errMsg |-> errMsg]
            ELSE
                LET int  == FindElement(members[i], faultMemberValueIntPath)
                    code == IF Text(name[1]) = faultCodeName
                            THEN (IF int = <<>>
                                  THEN FindElement(members[i], faultMemberValueI4Path)
                                  ELSE int)
                            ELSE errCode
                    msg  == IF Text(name[1]) = faultStringName
                            THEN FindElement(members[i], faultMemberValueStringPath)
                            ELSE errMsg
                IN  faultLoop(members, i + 1, code, msg)

unrecognizedFault == Errorf("failed to recognize XML RPC fault", "", <<>>)

\* parseFault without its test of the number of members
parseFaultAnyCount(e) ==
    LET members == FindElements(e, faultMembersPath)
        found   == faultLoop(members, 1, <<>>, <<>>)
    IN  IF found.errCode = <<>> \/ found.errMsg = <<>>
        THEN Failed(unrecognizedFault)
        ELSE Failed(Errorf("XML RPC error", "",
                           <<Text(found.errCode[1]), Text(found.errMsg[1])>>))

parseFault(e) ==
    LET members == FindElements(e, faultMembersPath)
    IN  IF Len(members) # 2 THEN Failed(unrecognizedFault)
        ELSE LET found == faultLoop(members, 1, <<>>, <<>>)
             IN  IF found.errCode = <<>> \/ found.errMsg = <<>>
                 THEN Failed(unrecognizedFault)
                 ELSE Failed(Errorf("XML RPC error", "",
                                    <<Text(found.errCode[1]), Text(found.errMsg[1])>>))

\* parseResponse rejecting only the response with neither path
parseResponseEitherPath(doc) ==
    LET valueTag == FindElement(doc, methodResponseValuePath)
        faultTag == FindElement(doc, methodResponseFaultPath)
    IN  IF valueTag = <<>> /\ faultTag = <<>>
        THEN Failed(Errorf("failed to recognize XML RPC response", "", <<>>))
        ELSE IF faultTag # <<>> THEN parseFault(faultTag[1])
        ELSE parseValue(valueTag[1])

parseResponse(doc) ==
    LET valueTag == FindElement(doc, methodResponseValuePath)
        faultTag == FindElement(doc, methodResponseFaultPath)
    IN  IF (valueTag = <<>> /\ faultTag = <<>>) \/ (valueTag # <<>> /\ faultTag # <<>>)
        THEN Failed(Errorf("failed to recognize XML RPC response", "", <<>>))
        ELSE IF faultTag # <<>> THEN parseFault(faultTag[1])
        ELSE parseValue(valueTag[1])

\* a response body: bytes that are well-formed XML for the document doc,
\* or bytes that are not well-formed XML
Body(wellformed, doc) == [wellformed |-> wellformed, doc |-> doc]

constructXML(data) ==
    IF ~data.wellformed
    THEN Failed(Wrap(Errorf("XML syntax error", "", <<>>), "failed to reconstruct XML DOM"))
    ELSE [res |-> <<data.doc>>, err |-> NoErr]

parseResult(data) ==
    LET doc == constructXML(data)
    IN  IF doc.err # NoErr THEN Failed(Wrap(doc.err, "cannot parse XML RPC response"))
        ELSE LET res == parseResponse(doc.res[1])
             IN  IF res.err # NoErr
                 THEN Failed(Wrap(res.err, "cannot parse XML RPC response"))
                 ELSE [res |-> res.res, err |-> NoErr]

(***************************************************************************)
(* The environment: the arguments a caller may pass and the servers the    *)
(* transport may reach.                                                    *)
(***************************************************************************)
SeqsUpTo(S, n) == UNION {[1..k -> S] : k \in 0..n}

Bool(b)         == [Nil EXCEPT !.t = "bool", !.bool = b]
Num(t, n)       == [Nil EXCEPT !.t = t, !.num = n]
GoInt(n)        == Num("int", n)
GoInt64(n)      == Num("int64", n)
Byte(n)         == Num("uint8", n)
Float(t, d)     == [Nil EXCEPT !.t = t, !.dec = d]
Str(s)          == [Nil EXCEPT !.t = "string", !.text = s]
TimeArg(tm)     == [Nil EXCEPT !.t = "time.Time", !.time = tm]
Food            == [Nil EXCEPT !.t = "food"]
Slice(elem, vs) == [Nil EXCEPT !.t = "slice", !.elem = elem, !.items = vs]
Array(elem, vs) == [Nil EXCEPT !.t = "array", !.elem = elem, !.items = vs]
Map(key, m)     == [Nil EXCEPT !.t = "map", !.elem = key, !.map = m]

\* 1995-01-01T06:38:05Z, the instant of Test_Call_args_time
TestTime == Time(788942285, 0, 0)

ScalarArgs ==
    {Bool(TRUE), Bool(FALSE),
     GoInt(5), GoInt(0), GoInt(-3), GoInt(2147483647),
     Num("int8", -128), Num("int8", 127), Num("int16", 32767), Num("int32", -70000),
     GoInt64(1), GoInt64(-9),
     Byte(7),
     Float("float64", Dec(FALSE, 15, 1)), Float("float32", Dec(FALSE, 1125, 2)),
     Str(<<"a">>), Str(<<>>), Str(<<"4">>),
     TimeArg(TestTime), TimeArg(Time(951867000, 500000000, 3600)),
     TimeArg(Time(0, 0, -1800)),
     Food, Nil}

CompositeArgs ==
    {Slice("int64", <<GoInt64(1), GoInt64(2), GoInt64(3)>>),
     Array("int64", <<GoInt64(1), GoInt64(2), GoInt64(3)>>),
     Slice("int", <<GoInt(1), GoInt(2)>>),
     Array("int32", <<Num("int32", 1), Num("int32", 2)>>),
     Slice("int", <<>>),
     Array("int", <<>>),
     Slice("food", <<Food>>),
     Slice("interface", <<GoInt(1), Nil, GoInt(2)>>),
     Slice("interface", <<GoInt(1), Str(<<"a">>)>>),
     Slice("slice", <<Slice("int", <<GoInt(1)>>), Slice("food", <<Food>>)>>),
     Slice("uint8", <<Byte(73), Byte(32)>>),
     Slice("uint8", <<Byte(0), Byte(255), Byte(16), Byte(1)>>),
     Slice("uint8", <<Byte(9), Byte(8), Byte(7)>>),
     Slice("uint8", <<Byte(200)>>),
     Slice("uint8", <<>>),
     Array("uint8", <<Byte(1), Byte(2), Byte(3)>>),
     Array("uint8", <<>>),
     Map("string", (<<"d">> :> GoInt64(10)) @@ (<<"s">> :> GoInt64(100))),
     Map("string", (<<"a">> :> GoInt(1)) @@ (<<"b">> :> GoInt(2))),
     Map("string", (<<"a">> :> GoInt(1))),
     Map("string", (<<"a">> :> Food)),
     Map("string", (<<"a">> :> GoInt(1)) @@ (<<"b">> :> Nil)),
     Map("string", <<>>),
     Map("int64", (<<"5">> :> GoInt64(10)) @@ (<<"4", "2">> :> GoInt64(100))),
     Map("int64", (<<"5">> :> GoInt(10))),
     Map("int64", <<>>),
     Map("string", (<<"a">> :> Map("int64", (<<"5">> :> GoInt(10)))) @@ (<<"b">> :> GoInt(2))),
     Slice("map", <<Map("int64", <<>>)>>)}

\* the arguments of the longer argument lists
ListArgs == {GoInt(2), GoInt(9), Nil, Array("uint8", <<Byte(1)>>)}

ArgLists ==
    {<<>>} \cup {<<a>> : a \in ScalarArgs \cup CompositeArgs}
    \cup UNION {[1..k -> ListArgs] : k \in 2..MaxArgs}

\* the arguments of the calls made against a canned response
CannedArgLists == {<<>>, <<GoInt(2), GoInt(9)>>}

methodName == <<"g", "e", "t">>

Value(child) == Elem("value", <<>>, <<child>>)

Scalar(tag, text) == Elem(tag, text, <<>>)

\* the encoder's text for TestTime, and the same instant in RFC 3339
EncodedTime == FormatTime(UTC(TestTime))
RFC3339Time == SubSeq(EncodedTime, 1, 19) \o <<"Z">>

ScalarElems ==
    {Scalar("string", <<"a">>), Scalar("string", <<>>),
     Scalar("int", <<"4">>), Scalar("int", <<"0">>), Scalar("int", <<"-", "1", "2">>),
     Scalar("int", <<"x">>), Scalar("int", <<>>), Scalar("i4", <<"7">>),
     Scalar("boolean", <<"1">>), Scalar("boolean", <<"0">>),
     Scalar("boolean", <<"t", "r", "u", "e">>), Scalar("boolean", <<"2">>),
     Scalar("double", <<"1", ".", "5">>), Scalar("double", <<"0">>),
     Scalar("double", <<"x">>),
     Scalar("dateTime.iso8601", RFC3339Time), Scalar("dateTime.iso8601", EncodedTime),
     Scalar("dateTime.iso8601", RFC3339Time \o <<"Z">>),
     Scalar("base64", <<"A", "Q", "=", "=">>), Scalar("base64", <<"A">>),
     Scalar("base64", <<>>),
     Scalar("nil", <<>>)}

Int4 == Scalar("int", <<"4">>)

EmptyValue == Elem("value", <<>>, <<>>)

TwoChildValue == Elem("value", <<>>, <<Int4, Scalar("int", <<"5">>)>>)

LeafValues ==
    {Value(Int4), Value(Scalar("string", <<"a">>)), Value(Scalar("int", <<"x">>)),
     EmptyValue, TwoChildValue}

Data(values) == Elem("data", <<>>, values)

ArrayOf(values) == Elem("array", <<>>, <<Data(values)>>)

Member(name, value) == Elem("member", <<>>, <<Elem("name", name, <<>>), value>>)

StructOf(members) == Elem("struct", <<>>, members)

\* the containers nested inside a canned array or struct
InnerValues ==
    {Value(ArrayOf(<<Value(Int4)>>)), Value(ArrayOf(<<>>)),
     Value(ArrayOf(<<Value(Int4), Value(Scalar("int", <<"x">>))>>)),
     Value(StructOf(<<Member(<<"a">>, Value(Int4))>>)), Value(StructOf(<<>>)),
     Value(ArrayOf(<<Value(Int4), EmptyValue>>)),
     Value(StructOf(<<Member(<<"a">>, TwoChildValue)>>))}

ArrayItems == LeafValues \cup InnerValues

Arrays ==
    {ArrayOf(vs) : vs \in SeqsUpTo(ArrayItems, MaxLen)}
    \cup {Elem("array", <<>>, <<>>),
          Elem("array", <<>>, <<Value(Int4)>>),
          Elem("array", <<>>, <<Data(<<Value(Int4)>>),
                                Data(<<Value(Scalar("string", <<"a">>))>>)>>)}

MemberValues ==
    {Value(Int4), Value(Scalar("string", <<"a">>)), EmptyValue,
     Value(ArrayOf(<<Value(Int4)>>)), Value(StructOf(<<Member(<<"a">>, Value(Int4))>>))}

Members ==
    {Member(n, v) : n \in {<<"a">>, <<"b">>}, v \in MemberValues}
    \cup {Elem("member", <<>>, <<Elem("name", <<"a">>, <<>>)>>),
          Elem("member", <<>>, <<Value(Int4)>>),
          Elem("member", <<>>, <<Elem("name", <<"a">>, <<>>), Elem("name", <<"b">>, <<>>),
                                 Value(Int4)>>),
          Elem("member", <<>>, <<Elem("name", <<"a">>, <<>>), Value(Int4),
                                 Value(Scalar("string", <<"a">>))>>)}

Structs == {StructOf(ms) : ms \in SeqsUpTo(Members, MaxLen)}

TopValues ==
    {Value(s) : s \in ScalarElems} \cup LeafValues
    \cup {Value(a) : a \in Arrays} \cup {Value(s) : s \in Structs}

Document(roots) == Elem("", <<>>, roots)

MethodResponse(kids) == Document(<<Elem("methodResponse", <<>>, kids)>>)

Params(values) ==
    Elem("params", <<>>, [i \in 1..Len(values) |-> Elem("param", <<>>, <<values[i]>>)])

ValueDocs ==
    {MethodResponse(<<Params(<<v>>)>>) : v \in TopValues}
    \cup {MethodResponse(<<Params(<<Value(Int4), Value(Scalar("string", <<"a">>))>>)>>),
          MethodResponse(<<Params(<<EmptyValue, Value(Int4)>>)>>)}

FaultMembers ==
    {Member(faultCodeName, Value(Int4)),
     Member(faultCodeName, Value(Scalar("i4", <<"7">>))),
     Member(faultCodeName, Value(Scalar("string", <<"x">>))),
     Member(faultStringName, Value(Scalar("string", <<"b", "a", "d">>))),
     Member(faultStringName, Value(Int4)),
     Elem("member", <<>>, <<Value(Int4)>>),
     Member(<<"a">>, Value(Scalar("string", <<"a">>)))}

Fault(members) == Elem("fault", <<>>, <<Value(StructOf(members))>>)

Faults ==
    {Fault(ms) : ms \in SeqsUpTo(FaultMembers, MaxFaultMembers)}
    \cup {Elem("fault", <<>>, <<>>), Elem("fault", <<>>, <<Value(Int4)>>)}

FaultDocs == {MethodResponse(<<f>>) : f \in Faults}

TestFault ==
    Fault(<<Member(faultCodeName, Value(Int4)),
            Member(faultStringName, Value(Scalar("string", <<"b", "a", "d">>)))>>)

\* responses with both the value path and the fault path
BothDocs ==
    {MethodResponse(<<Params(<<v>>), f>>) :
        v \in {Value(Int4), EmptyValue, Value(StructOf(<<>>))},
        f \in {TestFault, Fault(<<>>), Elem("fault", <<>>, <<>>)}}
    \cup {MethodResponse(<<TestFault, Params(<<Value(Int4)>>)>>)}

\* responses with neither path
NeitherDocs ==
    {Document(<<>>), MethodResponse(<<>>), MethodResponse(<<Elem("params", <<>>, <<>>)>>),
     MethodResponse(<<Elem("params", <<>>, <<Elem("param", <<>>, <<>>)>>)>>),
     MethodResponse(<<Value(Int4)>>),
     Document(<<Elem("html", <<>>, <<>>)>>),
     Document(<<Value(Int4)>>),
     Document(<<Elem("methodCall", <<>>, <<Params(<<Value(Int4)>>)>>)>>),
     Document(<<Elem("params", <<>>, <<Elem("param", <<>>, <<Value(Int4)>>)>>)>>),
     Document(<<TestFault>>)}

Docs == ValueDocs \cup FaultDocs \cup BothDocs \cup NeitherDocs

Peer(kind, status, data) == [kind |-> kind, status |-> status, data |-> data]

NoBody == Body(FALSE, Document(<<>>))

\* a server that answers a fixed body
CannedPeers ==
    {Peer("canned", 200, Body(TRUE, d)) : d \in Docs}
    \cup {Peer("canned", 200, NoBody)}

\* a server that answers every call with its own parameter list, a
\* connection that fails, a status outside 2xx, a body that cannot be read
OtherPeers ==
    {Peer("echo", 200, NoBody), Peer("echo", 204, NoBody),
     Peer("refuse", 0, NoBody), Peer("badread", 200, NoBody)}
    \cup {Peer("canned", code, Body(TRUE, MethodResponse(<<Params(<<Value(Int4)>>)>>))) :
             code \in {199, 300, 404, 500}}

\* the body an echoing server answers to a request
EchoOf(request) ==
    Body(TRUE, MethodResponse(FindElement(request, <<enMethodCall, enParams>>)))

(***************************************************************************)
(* client.go: Call, as the sequence of its steps.                          *)
(***************************************************************************)
Init ==
    /\ endpoint \in {"valid", "invalid"}
    /\ peer \in CannedPeers \cup OtherPeers
    /\ args \in (IF peer \in CannedPeers THEN CannedArgLists ELSE ArgLists)
    /\ pc = "preparePayload"
    /\ idx = 1
    /\ payload = newPayload(methodName)
    /\ buffer = <<>>
    /\ sent = 0
    /\ body = <<>>
    /\ parsed = 0
    /\ result = <<>>
    /\ err = NoErr

\* preparePayload, one turn of its loop: convert the next argument
ConvertArg ==
    /\ pc = "preparePayload"
    /\ idx <= Len(args)
    /\ \E o \in toValue(args[idx]) :
          /\ pc' = CASE o.st = "ok" -> "preparePayload"
                     [] o.st = "err" -> "done"
                     [] OTHER -> "panic"
          /\ idx' = IF o.st = "ok" THEN idx + 1 ELSE idx
          /\ payload' = IF o.st = "ok" THEN addParam(payload, o.val[1]) ELSE payload
          /\ err' = IF o.st = "err"
                    THEN Wrap(Wrap(o.err, "method arguments parsing failed"),
                              "payload preparation failed")
                    ELSE err
    /\ UNCHANGED <<endpoint, peer, args, buffer, sent, body, parsed, result>>

\* preparePayload after its loop: payload.WriteTo(buffer); a write to a
\* bytes.Buffer does not fail
WriteTo ==
    /\ pc = "preparePayload"
    /\ idx > Len(args)
    /\ buffer' = <<payload>>
    /\ pc' = "makeRequest"
    /\ UNCHANGED <<endpoint, peer, args, idx, payload, sent, body, parsed, result, err>>

\* makeRequest without its test of the status code
requestErrorAnyStatus ==
    IF endpoint = "invalid"
    THEN Wrap(Errorf("parse: invalid URL", "", <<>>), "request preparation failed")
    ELSE IF peer.kind = "refuse"
    THEN Wrap(Errorf("dial: connection refused", "", <<>>), "connection error")
    ELSE IF peer.kind = "badread"
    THEN Wrap(Errorf("unexpected EOF", "", <<>>), "response body read failed")
    ELSE NoErr

\* the error of makeRequest, NoErr if it returns a body
requestError ==
    IF endpoint = "invalid"
    THEN Wrap(Errorf("parse: invalid URL", "", <<>>), "request preparation failed")
    ELSE IF peer.kind = "refuse"
    THEN Wrap(Errorf("dial: connection refused", "", <<>>), "connection error")
    ELSE IF peer.status \div 100 # 2
    THEN Errorf("response error: code", "", <<FormatInt(peer.status)>>)
    ELSE IF peer.kind = "badread"
    THEN Wrap(Errorf("unexpected EOF", "", <<>>), "response body read failed")
    ELSE NoErr

\* makeRequest and Call's handling of its error
MakeRequest ==
    /\ pc = "makeRequest"
    /\ sent' = IF endpoint = "invalid" THEN sent ELSE sent + 1
    /\ IF requestError # NoErr
       THEN /\ err' = Wrap(requestError, "request failed")
            /\ pc' = "done"
            /\ body' = body
       ELSE /\ body' = <<IF peer.kind = "echo" THEN EchoOf(buffer[1]) ELSE peer.data>>
            /\ pc' = "parseResult"
            /\ err' = err
    /\ UNCHANGED <<endpoint, peer, args, idx, payload, buffer, parsed, result>>

\* return parseResult(res)
ParseResult ==
    /\ pc = "parseResult"
    /\ parsed' = parsed + 1
    /\ LET r == parseResult(body[1])
       IN  /\ result' = r.res
           /\ err' = r.err
    /\ pc' = "done"
    /\ UNCHANGED <<endpoint, peer, args, idx, payload, buffer, sent, body>>

Next == ConvertArg \/ WriteTo \/ MakeRequest \/ ParseResult

Spec == Init /\ [][Next]_vars

(***************************************************************************)
(* Properties.                                                             *)
(***************************************************************************)
\* whether some chain of children of e carries the tags of path
RECURSIVE HasPath(_, _)
HasPath(e, path) ==
    \/ path = <<>>
    \/ \E i \in 1..Len(e.kids) :
          e.kids[i].tag = Head(path) /\ HasPath(e.kids[i], Tail(path))

\* e and every element below it
RECURSIVE Descendants(_)
Descendants(e) == {e} \cup UNION {Descendants(e.kids[i]) : i \in 1..Len(e.kids)}

\* Call has returned after decoding a well-formed response document
Decoded == pc = "done" /\ parsed = 1 /\ body[1].wellformed

\* what Call returns when the decoder's rule returns r
Outcome(r) ==
    [res |-> r.res,
     err |-> IF r.err = NoErr THEN NoErr ELSE Wrap(r.err, "cannot parse XML RPC response")]

CallOutcome == [res |-> result, err |-> err]

UnrecognizedResponse ==
    Wrap(Errorf("failed to recognize XML RPC response", "", <<>>),
         "cannot parse XML RPC response")

\* C1: a response document with both the value path and the fault path,
\* or with neither, is decoded to the unrecognized-response error whatever
\* lies under the paths; with exactly one of them the outcome is that of
\* the fault rule, respectively of the value rule, on the element found.
C1_FaultExclusivity ==
    Decoded =>
        LET doc      == body[1].doc
            hasValue == HasPath(doc, methodResponseValuePath)
            hasFault == HasPath(doc, methodResponseFaultPath)
        IN  /\ (hasValue = hasFault) =>
                  result = <<>> /\ err = UnrecognizedResponse
            /\ (hasFault /\ ~hasValue) =>
                  CallOutcome
                      = Outcome(parseFault(FindElement(doc, methodResponseFaultPath)[1]))
            /\ (hasValue /\ ~hasFault) =>
                  CallOutcome
                      = Outcome(parseValue(FindElement(doc, methodResponseValuePath)[1]))

\* a response carrying a decodable value and a recognizable fault at once
\* has been rejected
C1_Witness ==
    /\ Decoded
    /\ body[1].doc = MethodResponse(<<Params(<<Value(Int4)>>), TestFault>>)
    /\ result = <<>>
    /\ err = UnrecognizedResponse

\* a member with exactly a name child of that text and a value child
\* holding one element of one of the tags
IsFaultMember(m, name, tags) ==
    /\ Len(m.kids) = 2
    /\ m.kids[1].tag = "name" /\ m.kids[1].text = name
    /\ m.kids[2].tag = "value" /\ Len(m.kids[2].kids) = 1
    /\ m.kids[2].kids[1].tag \in tags

RemoteFault(code, message) ==
    Wrap(Errorf("XML RPC error", "", <<code, message>>), "cannot parse XML RPC response")

\* the fault element of a response with the fault path only whose struct
\* has exactly the members code and message, in this order or the other:
\* <<f>>, or <<>> when the response is of another shape
FaultOf(doc, code, message) ==
    IF /\ Len(doc.kids) = 1 /\ doc.kids[1].tag = "methodResponse"
       /\ Len(doc.kids[1].kids) = 1 /\ doc.kids[1].kids[1].tag = "fault"
       /\ LET f == doc.kids[1].kids[1]
          IN  /\ Len(f.kids) = 1 /\ f.kids[1].tag = "value"
              /\ Len(f.kids[1].kids) = 1 /\ f.kids[1].kids[1].tag = "struct"
              /\ f.kids[1].kids[1].kids \in {<<code, message>>, <<message, code>>}
    THEN <<doc.kids[1].kids[1]>>
    ELSE <<>>

\* C2: a response with the fault path only, whose fault struct has exactly
\* two members, one named faultCode holding an int or i4 and one named
\* faultString holding a string, in either order, ends decoding with the
\* remote-fault error carrying the texts of both, and with no Result.
C2_FaultRecognized ==
    Decoded =>
        \A c, m \in Descendants(body[1].doc) :
            (/\ IsFaultMember(c, faultCodeName, {"int", "i4"})
             /\ IsFaultMember(m, faultStringName, {"string"})
             /\ FaultOf(body[1].doc, c, m) # <<>>)
            => /\ result = <<>>
               /\ err = RemoteFault(c.kids[2].kids[1].text, m.kids[2].kids[1].text)

\* a fault whose faultString member comes first and whose code is an i4
\* has been reported with its code and message
C2_Witness ==
    /\ Decoded
    /\ body[1].doc =
          MethodResponse(<<Fault(<<Member(faultStringName,
                                          Value(Scalar("string", <<"b", "a", "d">>))),
                                   Member(faultCodeName, Value(Scalar("i4", <<"7">>)))>>)>>)
    /\ result = <<>>
    /\ err = RemoteFault(<<"7">>, <<"b", "a", "d">>)

\* a value element that holds exactly one child, which decodes
ValueOK(v) == Len(v.kids) = 1 /\ parseElement(v.kids[1]).err = NoErr

\* C3: an array element whose walk over data/value yields no element
\* decodes to the empty-array error; one whose walk yields N >= 1 value
\* elements that each decode is decoded to a Result of kind Array with
\* exactly N children, the i-th the decoding of the i-th value element.
C3_ArrayDecoding ==
    Decoded =>
        \A a \in {e \in Descendants(body[1].doc) : e.tag = "array"} :
            LET values == FindElements(a, arrayValuePath)
                r      == parseElement(a)
            IN  /\ Len(values) = 0 =>
                      r = Failed(Errorf("no values found in array", "", <<>>))
                /\ (Len(values) >= 1 /\ \A i \in 1..Len(values) : ValueOK(values[i])) =>
                      /\ r.err = NoErr
                      /\ r.res[1].kind = KindArray
                      /\ Len(r.res[1].resArray) = Len(values)
                      /\ \A i \in 1..Len(values) :
                            r.res[1].resArray[i] = parseElement(values[i].kids[1]).res[1]
                      /\ r.res[1] = [ZeroResult EXCEPT !.kind = KindArray,
                                                       !.resArray = r.res[1].resArray]

\* the value of a response whose only path is the value path, <<>> otherwise
TopValue(doc) ==
    IF HasPath(doc, methodResponseFaultPath) THEN <<>>
    ELSE FindElement(doc, methodResponseValuePath)

\* Call returned an array of an int then a string, in the order of the
\* response's value elements
C3_Witness ==
    /\ Decoded
    /\ TopValue(body[1].doc)
          = <<Value(ArrayOf(<<Value(Int4), Value(Scalar("string", <<"a">>))>>))>>
    /\ err = NoErr
    /\ result # <<>>
    /\ result[1].kind = KindArray
    /\ Len(result[1].resArray) = 2
    /\ result[1].resArray[1].kind = KindInt /\ result[1].resArray[1].resInt = 4
    /\ result[1].resArray[2].kind = KindString /\ result[1].resArray[2].resString = <<"a">>

\* the name a member carries: the text of its first name child, as <<n>>,
\* or <<>> when it has no name child
NameOf(m) ==
    IF \E i \in 1..Len(m.kids) : m.kids[i].tag = "name"
    THEN <<m.kids[FirstIndex(m.kids, "name")].text>>
    ELSE <<>>

\* a member with a name child and a value child whose value decodes
MemberOK(m) ==
    /\ NameOf(m) # <<>>
    /\ \E i \in 1..Len(m.kids) : m.kids[i].tag = "value"
    /\ ValueOK(m.kids[FirstIndex(m.kids, "value")])

\* the decoding of the value of a member that is MemberOK
MemberResult(m) == parseElement(m.kids[FirstIndex(m.kids, "value")].kids[1]).res[1]

\* two members of ms carry the same name
SharedName(ms) ==
    \E i, j \in 1..Len(ms) : i < j /\ NameOf(ms[i]) # <<>> /\ NameOf(ms[i]) = NameOf(ms[j])

\* the second occurrence of the first name that occurs twice in ms
SecondOccurrence(ms) ==
    CHOOSE j \in 1..Len(ms) :
        /\ \E i \in 1..(j - 1) : NameOf(ms[i]) # <<>> /\ NameOf(ms[i]) = NameOf(ms[j])
        /\ \A k \in 1..(j - 1) :
              ~\E i \in 1..(k - 1) : NameOf(ms[i]) # <<>> /\ NameOf(ms[i]) = NameOf(ms[k])

DuplicateMember(name) == Errorf("struct member found multiple times", "", <<name>>)

StructsOf(doc) == {e \in Descendants(doc) : e.tag = "struct"}

\* C4 as stated: a struct element two of whose members carry the same name
\* decodes to the duplicate-member error.
C4_DuplicateAlwaysReported ==
    Decoded =>
        \A s \in StructsOf(body[1].doc) :
            LET ms == FindElements(s, structMemberPath)
            IN  SharedName(ms) =>
                    parseElement(s)
                        = Failed(DuplicateMember(NameOf(ms[SecondOccurrence(ms)])[1]))

\* C4, amended: a struct element two of whose members carry the same name
\* never decodes to a Result (the second occurrence never overwrites the
\* first), and it decodes to the duplicate-member error when the members
\* before the second occurrence are well formed and the second occurrence
\* has a value child; a struct of N >= 1 well-formed members with pairwise
\* distinct names decodes to a Result of kind Struct with exactly N
\* entries, each name mapped to the decoding of its own value; a struct
\* that yields no member decodes to the empty-struct error.
C4_StructDecoding ==
    Decoded =>
        \A s \in StructsOf(body[1].doc) :
            LET ms == FindElements(s, structMemberPath)
                r  == parseElement(s)
            IN  /\ SharedName(ms) =>
                      /\ r.res = <<>> /\ r.err # NoErr
                      /\ LET j == SecondOccurrence(ms)
                         IN  (/\ \A i \in 1..(j - 1) : MemberOK(ms[i])
                              /\ \E i \in 1..Len(ms[j].kids) : ms[j].kids[i].tag = "value")
                             => r = Failed(DuplicateMember(NameOf(ms[j])[1]))
                /\ (/\ Len(ms) >= 1
                    /\ \A i \in 1..Len(ms) : MemberOK(ms[i])
                    /\ ~SharedName(ms)) =>
                      /\ r.err = NoErr
                      /\ r.res[1].kind = KindStruct
                      /\ Cardinality(DOMAIN r.res[1].resStruct) = Len(ms)
                      /\ \A i \in 1..Len(ms) :
                            /\ NameOf(ms[i])[1] \in DOMAIN r.res[1].resStruct
                            /\ r.res[1].resStruct[NameOf(ms[i])[1]] = MemberResult(ms[i])
                /\ Len(ms) = 0 =>
                      r = Failed(Errorf("no members found in struct", "", <<>>))

\* Call rejected a struct whose two well-formed members share the name a
C4_Witness ==
    /\ Decoded
    /\ TopValue(body[1].doc)
          = <<Value(StructOf(<<Member(<<"a">>, Value(Int4)),
                               Member(<<"a">>, Value(Scalar("string", <<"a">>)))>>))>>
    /\ result = <<>>
    /\ err = Wrap(DuplicateMember(<<"a">>), "cannot parse XML RPC response")

\* the wire value of the i-th param of a payload
ParamOf(p, i) ==
    FindElements(p, <<enMethodCall, enParams, enParam, enValue>>)[i].kids[1]

\* Call went through all its stages against a server that echoed the
\* request's params as the response's params
Echoed == Decoded /\ peer.kind = "echo"

SignedInts == {"int", "int8", "int16", "int32"}

\* C5: for every int, int8, int16, int32, bool, string and []byte argument
\* v, a call with v as its only argument against a server that echoes the
\* encoder's value element returns no error and a Result whose kind is
\* Int, Bool, String or Base64 respectively, whose field for that kind
\* equals v and whose other fields are zero.
C5_ScalarRoundTrip ==
    (Echoed /\ Len(args) = 1) =>
        LET v == args[1]
        IN  /\ v.t \in SignedInts =>
                  /\ err = NoErr
                  /\ result = <<[ZeroResult EXCEPT !.kind = KindInt, !.resInt = v.num]>>
            /\ v.t = "bool" =>
                  /\ err = NoErr
                  /\ result = <<[ZeroResult EXCEPT !.kind = KindBool, !.resBoolean = v.bool]>>
            /\ v.t = "string" =>
                  /\ err = NoErr
                  /\ result = <<[ZeroResult EXCEPT !.kind = KindString, !.resString = v.text]>>
            /\ IsByteSlice(v) =>
                  /\ err = NoErr
                  /\ result = <<[ZeroResult EXCEPT !.kind = KindBase64,
                                                    !.resBase64 = BytesOf(v.items)]>>

\* the bytes 0, 255, 16, 1 went out as AP8QAQ== and came back from the
\* echoing server
C5_Witness ==
    /\ Echoed
    /\ args = <<Slice("uint8", <<Byte(0), Byte(255), Byte(16), Byte(1)>>)>>
    /\ ParamOf(buffer[1], 1) = newScalar(enBase64, <<"A", "P", "8", "Q", "A", "Q", "=", "=">>)
    /\ err = NoErr
    /\ result[1].kind = KindBase64
    /\ result[1].resBase64 = <<0, 255, 16, 1>>

\* C6: for every time.Time argument t, a call with t as its only argument
\* against a server that echoes the encoder's dateTime.iso8601 element
\* returns no error and a Result of kind DateTime that denotes the instant
\* of t truncated to whole seconds.
C6_DateTimeRoundTrip ==
    (Echoed /\ Len(args) = 1 /\ args[1].t = "time.Time") =>
        /\ err = NoErr
        /\ result # <<>>
        /\ result[1].kind = KindDateTime
        /\ result[1].resDateTime.unix = args[1].time.unix
        /\ result[1].resDateTime.nsec = 0

\* every way of converting arg returns an error
Fails(arg) == \A o \in toValue(arg) : o.st = "err"

\* an argument of Call that is nil, is a struct other than time.Time, or
\* holds, as an element of a slice or array that is not a byte sequence or
\* as a value of a map, a value whose conversion fails
Rejected(arg) ==
    \/ arg.t = "nil"
    \/ arg.t = "food"
    \/ /\ arg.t \in {"slice", "array"}
       /\ arg.elem # "uint8"
       /\ \E i \in 1..Len(arg.items) : Fails(arg.items[i])
    \/ /\ arg.t = "map"
       /\ \E k \in DOMAIN arg.map : Fails(arg.map[k])

\* the index of the first rejected argument
FirstRejected == CHOOSE i \in 1..Len(args) : Rejected(args[i]) /\ \A j \in 1..(i - 1) : ~Rejected(args[j])

Ended == pc \in {"done", "panic"}

\* C7: if some argument of Call is nil, is an unsupported struct, or
\* contains a value whose conversion fails, then nothing is ever
\* serialized or sent, no argument after the first such argument is
\* converted, and the call ends by returning a nil Result and an error
\* whose outermost message is 'payload preparation failed'.
C7_ConversionFailureStopsCall ==
    (\E i \in 1..Len(args) : Rejected(args[i])) =>
        /\ buffer = <<>> /\ sent = 0 /\ parsed = 0
        /\ idx <= FirstRejected
        /\ Ended =>
              /\ pc = "done"
              /\ result = <<>>
              /\ err # NoErr
              /\ Head(err.chain) = "payload preparation failed"

\* C7 but for the calls that abort: what C7 states holds of every call
\* along which no conversion panics, and a panic comes only from an
\* argument before the first rejected one
C7_StopsUnlessAborted ==
    (\E i \in 1..Len(args) : Rejected(args[i])) =>
        /\ buffer = <<>> /\ sent = 0 /\ parsed = 0
        /\ idx <= FirstRejected
        /\ pc \in {"preparePayload", "done", "panic"}
        /\ pc = "panic" => idx < FirstRejected /\ toValue(args[idx]) = {Panic}
        /\ pc = "done" =>
              /\ idx = FirstRejected
              /\ result = <<>>
              /\ err # NoErr
              /\ Head(err.chain) = "payload preparation failed"

InvalidType(k) ==
    Wrap(Wrap(Errorf("invalid type", k, <<>>), "method arguments parsing failed"),
         "payload preparation failed")

\* C8: a map argument whose key type is not string is never converted,
\* whatever the number of its entries: the call stops at it with the
\* invalid-type error, and no param is added for it.
C8_NonStringKeyMapFails ==
    \A i \in 1..Len(args) :
        (args[i].t = "map" /\ args[i].elem # "string") =>
            /\ idx <= i
            /\ (pc = "done" /\ idx = i) => err = InvalidType("map")

\* the argument is a slice, an array or a string-keyed map of signed
\* integers
HoldsSignedInts(arg) ==
    \/ /\ arg.t \in {"slice", "array"}
       /\ arg.elem \in SignedInts \cup {"int64"}
    \/ /\ arg.t = "map"
       /\ arg.elem = "string"
       /\ \A k \in DOMAIN arg.map : arg.map[k].t \in SignedInts \cup {"int64"}

\* C9: an int, int8, int16, int32 or int64 argument is converted to an
\* int element holding the decimal text of the same number, and the
\* conversion of such an argument, or of a slice, array or string-keyed
\* map of such values, does not end the call with an error.
C9_SignedIntsOfEveryWidth ==
    \A i \in 1..Len(args) :
        /\ args[i].t \in SignedInts \cup {"int64"} =>
              /\ ~(pc = "done" /\ idx = i /\ parsed = 0 /\ sent = 0)
              /\ idx > i => ParamOf(payload, i) = newScalar(enInt, FormatInt(args[i].num))
        /\ HoldsSignedInts(args[i]) =>
              ~(pc = "done" /\ idx = i /\ parsed = 0 /\ sent = 0)

\* C10: a slice or an array of uint8 is converted to a base64 element
\* holding the padded base64 text of its bytes, and the conversion does
\* not panic.
C10_ByteSequencesToBase64 ==
    \A i \in 1..Len(args) :
        (args[i].t \in {"slice", "array"} /\ args[i].elem = "uint8") =>
            /\ ~(pc = "panic" /\ idx = i)
            /\ idx > i =>
                  ParamOf(payload, i) = newScalar(enBase64, EncodeToString(BytesOf(args[i].items)))

\* the transport cannot deliver a body: the request cannot be built, the
\* connection fails, the status code is outside 200..299, or the body
\* cannot be read
TransportFails ==
    \/ endpoint = "invalid"
    \/ peer.kind = "refuse"
    \/ peer.status \notin 200..299
    \/ peer.kind = "badread"

\* C11: Call converts and serializes, then transmits, then decodes, each
\* stage at most once and only after the previous one succeeded: the
\* request is serialized only when every argument is converted, sent only
\* when serialized, and a body is decoded only when one request was sent
\* and the transport delivered it; when the transport fails, Call returns
\* a nil Result and an error whose outermost message is 'request failed',
\* no body is handed to the decoder and at most one request is sent.
C11_StagesInOrder ==
    /\ sent <= 1 /\ parsed <= 1
    /\ buffer # <<>> => idx > Len(args) /\ buffer = <<payload>>
    /\ pc \in {"makeRequest", "parseResult"} => buffer # <<>>
    /\ sent > 0 => buffer # <<>>
    /\ pc = "parseResult" => sent = 1 /\ body # <<>> /\ ~TransportFails /\ parsed = 0
    /\ parsed > 0 => sent = 1 /\ body # <<>> /\ ~TransportFails /\ pc = "done"
    /\ body # <<>> => sent = 1 /\ ~TransportFails
    /\ (TransportFails /\ pc = "done" /\ buffer # <<>>) =>
          /\ result = <<>>
          /\ err # NoErr
          /\ Head(err.chain) = "request failed"
          /\ body = <<>>
          /\ parsed = 0
          /\ sent = (IF endpoint = "invalid" THEN 0 ELSE 1)

\* the server answered 404 to the one request sent: Call returned the
\* 'request failed' error and decoded nothing
C11_Witness ==
    /\ pc = "done"
    /\ endpoint = "valid"
    /\ peer.status = 404
    /\ sent = 1
    /\ parsed = 0
    /\ result = <<>>
    /\ err = Wrap(Errorf("response error: code", "", <<<<"4", "0", "4">>>>), "request failed")

\* r is a Result and no error, or no Result and an error
ResultXorError(r) ==
    \/ r.res # <<>> /\ r.err = NoErr
    \/ r.res = <<>> /\ r.err # NoErr

\* the value elements an array or struct element hands to the decoder:
\* the values under an array's data, the first value child of each member
ChildValues(e) ==
    IF e.tag = "array"
    THEN {FindElements(e, arrayValuePath)[i] : i \in 1..Len(FindElements(e, arrayValuePath))}
    ELSE LET ms == FindElements(e, structMemberPath)
         IN  {FindElement(ms[i], structMemberValueTag)[1] :
                 i \in {j \in 1..Len(ms) : FindElement(ms[j], structMemberValueTag) # <<>>}}

\* C12: when Call returns, and for every element of a response the
\* decoder may be applied to, the outcome is a Result with a nil error or
\* a nil Result with an error; an array or struct one of whose value
\* elements fails to decode, at whatever depth, decodes to no Result, and
\* when the failure lies under the response's value Call returns nil.
C12_NoPartialResults ==
    /\ pc = "done" => ResultXorError(CallOutcome)
    /\ Decoded =>
          /\ ResultXorError(parseResult(body[1]))
          /\ \A e \in Descendants(body[1].doc) :
                /\ ResultXorError(parseElement(e))
                /\ (e.tag \in {"array", "struct"}
                    /\ \E v \in ChildValues(e) : ~ValueOK(v)) =>
                       /\ parseElement(e).res = <<>>
                       /\ \A v \in Descendants(body[1].doc) :
                             (v.tag = "value" /\ v.kids = <<e>> /\ TopValue(body[1].doc) = <<v>>)
                                 => result = <<>>

\* the second element of the array inside the response's array does not
\* decode: Call returned no Result, not the elements decoded before it
C12_Witness ==
    /\ Decoded
    /\ TopValue(body[1].doc)
          = <<Value(ArrayOf(<<Value(Int4),
                              Value(ArrayOf(<<Value(Int4), Value(Scalar("int", <<"x">>))>>))>>))>>
    /\ result = <<>>
    /\ err # NoErr

\* the field the accessor of a kind reads
AccessorOf(kind) ==
    CASE kind = KindString   -> "resString"
      [] kind = KindInt      -> "resInt"
      [] kind = KindBool     -> "resBoolean"
      [] kind = KindDouble   -> "resDouble"
      [] kind = KindDateTime -> "resDateTime"
      [] kind = KindBase64   -> "resBase64"
      [] kind = KindStruct   -> "resStruct"
      [] kind = KindArray    -> "resArray"
      [] OTHER               -> "none"

\* the typed accessors of r that return something else than the zero
\* value of their type
NonZeroAccessors(r) ==
    {f \in DOMAIN ZeroResult \ {"kind"} : r[f] # ZeroResult[f]}

\* the Results decoding constructs from a document: one for every element
\* that decodes
ResultsOf(doc) ==
    {parseElement(e).res[1] : e \in {d \in Descendants(doc) : parseElement(d).err = NoErr}}

\* C13 as stated: for every Result constructed by decoding, exactly one
\* typed accessor returns a non-zero value, the one of its Kind().
C13_ExactlyOneAccessorNonZero ==
    Decoded =>
        /\ \A r \in ResultsOf(body[1].doc) : NonZeroAccessors(r) = {AccessorOf(r.kind)}
        /\ result # <<>> => NonZeroAccessors(result[1]) = {AccessorOf(result[1].kind)}

\* C13, amended: for every Result constructed by decoding, Kind() is one
\* of the eight concrete kinds and every typed accessor other than the one
\* of Kind() returns the zero value of its type, so at most one accessor
\* returns a non-zero value; the accessor of Kind() may itself return the
\* zero value (a decoded int 0, false, 0.0, empty string or empty base64
\* data), except for kinds Array and Struct, where it never does.
C13_AtMostOneAccessorNonZero ==
    Decoded =>
        \A r \in ResultsOf(body[1].doc) \cup {result[i] : i \in 1..Len(result)} :
            /\ AccessorOf(r.kind) # "none"
            /\ NonZeroAccessors(r) \subseteq {AccessorOf(r.kind)}
            /\ r.kind \in {KindArray, KindStruct} => NonZeroAccessors(r) = {AccessorOf(r.kind)}

\* Call returned the Result of <int>0</int>: kind Int, and every accessor
\* returns a zero value
C13_Witness ==
    /\ Decoded
    /\ TopValue(body[1].doc) = <<Value(Scalar("int", <<"0">>))>>
    /\ err = NoErr
    /\ result[1].kind = KindInt
    /\ NonZeroAccessors(result[1]) = {}

\* a slice or an array without elements whose element type is not uint8
EmptySequence(arg) ==
    arg.t \in {"slice", "array"} /\ arg.elem # "uint8" /\ arg.items = <<>>

EmptyArrayError ==
    Wrap(Errorf("no values found in array", "", <<>>), "cannot parse XML RPC response")

\* C14: a slice or array argument without elements (not a byte sequence)
\* is converted to an array element whose data child has no value child:
\* the call is not stopped at that argument, and a call with only such an
\* argument is serialized and, the endpoint being a URL, sent; a response
\* whose value is that same array element, echoed or not, makes Call
\* return a nil Result and the empty-array error wrapped with 'cannot
\* parse XML RPC response'.
C14_EmptyCollectionAsymmetry ==
    /\ \A i \in 1..Len(args) :
          EmptySequence(args[i]) =>
              /\ ~(idx = i /\ pc \in {"done", "panic"})
              /\ idx > i => ParamOf(payload, i) = Elem(enArray, <<>>, <<Elem(enData, <<>>, <<>>)>>)
    /\ (Len(args) = 1 /\ EmptySequence(args[1])) =>
          /\ pc # "preparePayload" => buffer = <<payload>>
          /\ (pc \in {"parseResult", "done"} /\ endpoint = "valid") => sent = 1
          /\ Echoed => result = <<>> /\ err = EmptyArrayError
    /\ (Decoded /\ TopValue(body[1].doc) = <<Value(Elem(enArray, <<>>, <<Elem(enData, <<>>, <<>>)>>))>>)
          => result = <<>> /\ err = EmptyArrayError

\* the empty slice went out as an array without values, the server echoed
\* it, and Call returned the empty-array error
C14_Witness ==
    /\ Echoed
    /\ args = <<Slice("int", <<>>)>>
    /\ sent = 1
    /\ ParamOf(buffer[1], 1) = ArrayOf(<<>>)
    /\ TopValue(body[1].doc) = <<Value(ArrayOf(<<>>))>>
    /\ result = <<>>
    /\ err = EmptyArrayError

\* a value element without exactly one child element
Malformed(v) == Len(v.kids) # 1

MalformedValue == Errorf(oneChildMsg, "", <<>>)

\* the error decoding a value element ends with, NoErr if it decodes
ValueError(v) == IF Malformed(v) THEN MalformedValue ELSE parseElement(v.kids[1]).err

\* the first value child of a member, as <<v>>, <<>> if it has none
ValueOf(m) == FindElement(m, structMemberValueTag)

\* member j of ms is reached with a name not met before and a value child
ReachedWithValue(ms, j) ==
    /\ \A i \in 1..(j - 1) : MemberOK(ms[i])
    /\ NameOf(ms[j]) # <<>>
    /\ ValueOf(ms[j]) # <<>>
    /\ \A i, k \in 1..j : NameOf(ms[i]) = NameOf(ms[k]) => i = k

\* C15 as stated: a value element without exactly one child, as the
\* response's value, under an array's data or as the value of a struct
\* member, makes decoding fail with the malformed-value error.
C15_MalformedValueAlwaysReported ==
    Decoded =>
        /\ \A v \in {x \in Descendants(body[1].doc) : TopValue(body[1].doc) = <<x>>} :
              Malformed(v) => CallOutcome = Outcome(Failed(MalformedValue))
        /\ \A e \in Descendants(body[1].doc) :
              /\ e.tag = "array" =>
                    \A v \in ChildValues(e) : Malformed(v) => parseElement(e) = Failed(MalformedValue)
              /\ e.tag = "struct" =>
                    \A v \in ChildValues(e) : Malformed(v) => parseElement(e) = Failed(MalformedValue)

\* C15, amended: a value element without exactly one child, as the
\* response's value, under an array's data or as the first value child of
\* a struct member, makes the decoding of its array or struct, and of
\* everything around it, fail: no Result is returned.  The error is the
\* malformed-value error when the value is the first thing to fail in
\* document order (for a member: it is reached with a name not met
\* before); every array or struct fails with the error of its first value
\* that fails, so the error surfaces unchanged from whatever depth.
C15_ExactlyOneChild ==
    Decoded =>
        /\ \A v \in {x \in Descendants(body[1].doc) : TopValue(body[1].doc) = <<x>>} :
              /\ Malformed(v) => CallOutcome = Outcome(Failed(MalformedValue))
              /\ ~ValueOK(v) => CallOutcome = Outcome(Failed(ValueError(v)))
        /\ \A e \in Descendants(body[1].doc) :
              /\ e.tag = "array" =>
                    LET items == FindElements(e, arrayValuePath)
                    IN  \A j \in 1..Len(items) :
                            /\ Malformed(items[j]) => parseElement(e).res = <<>>
                            /\ (~ValueOK(items[j]) /\ \A i \in 1..(j - 1) : ValueOK(items[i]))
                                   => parseElement(e) = Failed(ValueError(items[j]))
              /\ e.tag = "struct" =>
                    LET ms == FindElements(e, structMemberPath)
                    IN  \A j \in 1..Len(ms) :
                            /\ (ValueOf(ms[j]) # <<>> /\ Malformed(ValueOf(ms[j])[1]))
                                   => parseElement(e).res = <<>>
                            /\ (ReachedWithValue(ms, j) /\ ~ValueOK(ValueOf(ms[j])[1]))
                                   => parseElement(e) = Failed(ValueError(ValueOf(ms[j])[1]))

\* the value of the member of the struct inside the response's array has
\* two children: Call returned the malformed-value error
C15_Witness ==
    /\ Decoded
    /\ TopValue(body[1].doc)
          = <<Value(ArrayOf(<<Value(Int4),
                              Value(StructOf(<<Member(<<"a">>, TwoChildValue)>>))>>))>>
    /\ CallOutcome = Outcome(Failed(MalformedValue))

\* the number of children of e that carry the tag
Count(e, tag) == Cardinality({i \in 1..Len(e.kids) : e.kids[i].tag = tag})

\* a member with one name child, one value child and a value that decodes
MemberStrict(m) == MemberOK(m) /\ Count(m, "name") = 1 /\ Count(m, "value") = 1

\* member j of ms is the first that is not strict, and the names before it
\* are pairwise distinct
FirstNotStrict(ms, j) ==
    /\ \A i \in 1..(j - 1) : MemberStrict(ms[i])
    /\ \A i, k \in 1..(j - 1) : NameOf(ms[i]) = NameOf(ms[k]) => i = k
    /\ ~MemberStrict(ms[j])

\* the parts of C16 on a member without name and a member without value
C16_MissingNameOrValue ==
    Decoded =>
        \A s \in StructsOf(body[1].doc) :
            LET ms == FindElements(s, structMemberPath)
            IN  \A j \in 1..Len(ms) :
                    FirstNotStrict(ms, j) =>
                        /\ Count(ms[j], "name") = 0 =>
                              parseElement(s)
                                  = Failed(Errorf("no 'name' tag found for struct member", "", <<>>))
                        /\ (Count(ms[j], "name") > 0 /\ Count(ms[j], "value") = 0) =>
                              parseElement(s)
                                  = Failed(Errorf("no 'value' tag found for struct member", "", <<>>))

\* C16: a struct whose first ill-formed member has no name child decodes
\* to the missing-member-name error, one whose first ill-formed member has
\* a name but no value child to the missing-member-value error, and one
\* whose first ill-formed member has more than one name child or more
\* than one value child does not decode to a Result.
C16_ExactlyOneNameOneValue ==
    /\ C16_MissingNameOrValue
    /\ Decoded =>
          \A s \in StructsOf(body[1].doc) :
              LET ms == FindElements(s, structMemberPath)
              IN  \A j \in 1..Len(ms) :
                      (FirstNotStrict(ms, j)
                       /\ (Count(ms[j], "name") > 1 \/ Count(ms[j], "value") > 1))
                          => parseElement(s).res = <<>>

\* C17: whatever a conversion of an argument produced, every conversion
\* of the same argument produces: the wire value of the i-th param is the
\* only outcome of converting the i-th argument, so that two calls with
\* the same arguments serialize the same request, the members of a
\* string-keyed map in one fixed order.
C17_ConverterDeterministic ==
    \A i \in 1..Len(args) :
        idx > i => \A o \in toValue(args[i]) : o = Ok(ParamOf(payload, i))

\* the type tags the decoder knows and the kind each stands for
KindOfTag ==
    [string |-> KindString, int |-> KindInt, i4 |-> KindInt, boolean |-> KindBool,
     double |-> KindDouble, base64 |-> KindBase64, array |-> KindArray,
     struct |-> KindStruct]
    @@ ("dateTime.iso8601" :> KindDateTime)

\* r and the Results nested in it, at every depth
RECURSIVE Nested(_)
Nested(r) ==
    {r} \cup UNION {Nested(r.resArray[i]) : i \in 1..Len(r.resArray)}
        \cup UNION {Nested(r.resStruct[k]) : k \in DOMAIN r.resStruct}

\* C18: an element whose tag is one of string, int, i4, boolean, double,
\* dateTime.iso8601, base64, array, struct decodes, when it decodes, to a
\* Result of the kind of its tag, and never to the unrecognized-tag error
\* (i4 decodes as int does); an element of any other tag decodes to the
\* unrecognized-tag error; no Result returned by Call, nor any Result
\* nested in it, has kind Invalid.
C18_TagDispatch ==
    Decoded =>
        /\ \A e \in Descendants(body[1].doc) :
              LET r == parseElement(e)
              IN  IF e.tag \in DOMAIN KindOfTag
                  THEN /\ r.err # Errorf("cannot recognize tag", e.tag, <<>>)
                       /\ e.tag = "i4" => r = parseElement([e EXCEPT !.tag = "int"])
                       /\ r.err = NoErr =>
                              /\ r.res[1].kind = KindOfTag[e.tag]
                              /\ \A n \in Nested(r.res[1]) : n.kind # KindInvalid
                  ELSE r = Failed(Errorf("cannot recognize tag", e.tag, <<>>))
        /\ \A i \in 1..Len(result) :
              /\ \A n \in Nested(result[i]) : n.kind # KindInvalid
              /\ \A v \in {x \in Descendants(body[1].doc) : TopValue(body[1].doc) = <<x>>} :
                    result[i].kind = KindOfTag[v.kids[1].tag]

\* Call returned the Result of <i4>7</i4>: kind Int, value 7
C18_Witness ==
    /\ Decoded
    /\ TopValue(body[1].doc) = <<Value(Scalar("i4", <<"7">>))>>
    /\ err = NoErr
    /\ result = <<[ZeroResult EXCEPT !.kind = KindInt, !.resInt = 7]>>

\* the members of the fault of a response
FaultMembersOf(doc) ==
    FindElements(FindElement(doc, methodResponseFaultPath)[1], faultMembersPath)

\* the members do not have the shape of a fault: they are not two, or one
\* has no name, or none named faultCode holds an int or i4, or none named
\* faultString holds a string
BadFaultShape(ms) ==
    \/ Len(ms) # 2
    \/ \E i \in 1..Len(ms) : NameOf(ms[i]) = <<>>
    \/ ~\E i \in 1..Len(ms) :
          /\ NameOf(ms[i]) = <<faultCodeName>>
          /\ \/ FindElement(ms[i], faultMemberValueIntPath) # <<>>
             \/ FindElement(ms[i], faultMemberValueI4Path) # <<>>
    \/ ~\E i \in 1..Len(ms) :
          /\ NameOf(ms[i]) = <<faultStringName>>
          /\ FindElement(ms[i], faultMemberValueStringPath) # <<>>

UnrecognizedFault == Wrap(unrecognizedFault, "cannot parse XML RPC response")

\* C19: when a response has the fault path and not the value path, and
\* its fault does not have exactly two members, or a member has no name,
\* or no member named faultCode holds an int or i4, or no member named
\* faultString holds a string, Call returns a nil Result and the
\* unrecognized-fault error, never a remote-fault error.
C19_FaultShapeValidated ==
    (/\ Decoded
     /\ HasPath(body[1].doc, methodResponseFaultPath)
     /\ ~HasPath(body[1].doc, methodResponseValuePath)
     /\ BadFaultShape(FaultMembersOf(body[1].doc))) =>
        /\ result = <<>>
        /\ err = UnrecognizedFault

\* a fault with a faultCode, a faultString and a third member: Call
\* returned the unrecognized-fault error
C19_Witness ==
    /\ Decoded
    /\ body[1].doc = MethodResponse(<<Fault(<<Member(faultCodeName, Value(Int4)),
                                             Member(faultStringName,
                                                    Value(Scalar("string", <<"b", "a", "d">>))),
                                             Member(<<"a">>, Value(Scalar("string", <<"a">>)))>>)>>)
    /\ result = <<>>
    /\ err = UnrecognizedFault

====
